---- MODULE Spec2Model ----
(***************************************************************************)
(* Model of budget1.py: the sqlite ledger (DatabaseManager), the recurring *)
(* rule engine (process_recurring_transactions) and the JSON snapshot      *)
(* export / import (SaveLoadManager).                                      *)
(*                                                                         *)
(* A TEXT date column 'YYYY-MM-DD' is a tuple <<yyyy, mm, dd>>; a Python   *)
(* date / datetime object is a record [year, month, day].  strptime and    *)
(* strftime convert between the two, strptime raising ValueError on a text *)
(* that is no calendar date.  A Python call that may raise returns a       *)
(* record [raised, val].  SQL NULL / Python None is the empty tuple.  The   *)
(* variable file is the export file: empty, or holding one document.       *)
(* The created_at column is written by sqlite and read by no operation: it *)
(* only occupies its position in a SELECT * row.                           *)
(***************************************************************************)
EXTENDS Integers, Sequences, FiniteSets, TLC

VARIABLES db, today, file, ret

vars == <<db, today, file, ret>>

None == <<>>

\* Python truthiness of a nullable date column (`if last_processed`, `not end_date`)
Truthy(v) == v # None

\* rec[i] / trans[i] of a SELECT * row, with Python's 0-based index.
At(row, i) == row[i + 1]

Ok(v) == [raised |-> FALSE, val |-> v]

ValueError == [raised |-> TRUE, val |-> None]

(***************************************************************************)
(* datetime arithmetic                                                     *)
(***************************************************************************)
IsLeap(y) == (y % 4 = 0 /\ y % 100 # 0) \/ y % 400 = 0

DaysInMonth(y, m) ==
    IF m = 2 THEN (IF IsLeap(y) THEN 29 ELSE 28)
    ELSE IF m \in {4, 6, 9, 11} THEN 30 ELSE 31

Date(y, m, d) == [year |-> y, month |-> m, day |-> d]

\* datetime.strptime(text, '%Y-%m-%d')
strptime(text) ==
    IF /\ Len(text) = 3
       /\ text[2] \in 1..12
       /\ text[3] \in 1..DaysInMonth(text[1], text[2])
    THEN Ok(Date(text[1], text[2], text[3]))
    ELSE ValueError

\* d.strftime('%Y-%m-%d')
strftime(d) == <<d.year, d.month, d.day>>

\* a <= b on dates
DateLE(a, b) ==
    \/ a.year < b.year
    \/ a.year = b.year /\ a.month < b.month
    \/ a.year = b.year /\ a.month = b.month /\ a.day <= b.day

DateLT(a, b) == DateLE(a, b) /\ a # b

NextDay(d) ==
    IF d.day < DaysInMonth(d.year, d.month) THEN Date(d.year, d.month, d.day + 1)
    ELSE IF d.month < 12 THEN Date(d.year, d.month + 1, 1)
    ELSE Date(d.year + 1, 1, 1)

PrevDay(d) ==
    IF d.day > 1 THEN Date(d.year, d.month, d.day - 1)
    ELSE IF d.month > 1 THEN Date(d.year, d.month - 1, DaysInMonth(d.year, d.month - 1))
    ELSE Date(d.year - 1, 12, 31)

RECURSIVE PlusDays(_, _)
\* d + timedelta(days=n), n >= 0
PlusDays(d, n) == IF n = 0 THEN d ELSE PlusDays(NextDay(d), n - 1)

\* dt.replace(year=y, month=m): ValueError when the day is not in that month
replace(d, y, m) ==
    IF d.day <= DaysInMonth(y, m) THEN Ok(Date(y, m, d.day)) ELSE ValueError

RECURSIVE MinusDays(_, _)
\* d - timedelta(days=n), n >= 0
MinusDays(d, n) == IF n = 0 THEN d ELSE MinusDays(PrevDay(d), n - 1)

\* A weekly step that goes backwards: timedelta(weeks=-1).
calculate_next_due_date_backwards(last_date, frequency) ==
    IF frequency = "daily" THEN Ok(PlusDays(last_date, 1))
    ELSE IF frequency = "weekly" THEN Ok(MinusDays(last_date, 7))
    ELSE IF frequency = "bi-weekly" THEN Ok(PlusDays(last_date, 14))
    ELSE IF frequency = "monthly" THEN
        IF last_date.month = 12 THEN replace(last_date, last_date.year + 1, 1)
        ELSE replace(last_date, last_date.year, last_date.month + 1)
    ELSE IF frequency = "yearly" THEN replace(last_date, last_date.year + 1, last_date.month)
    ELSE Ok(PlusDays(last_date, 1))

\* DatabaseManager._calculate_next_due_date
calculate_next_due_date(last_date, frequency) ==
    IF frequency = "daily" THEN Ok(PlusDays(last_date, 1))
    ELSE IF frequency = "weekly" THEN Ok(PlusDays(last_date, 7))
    ELSE IF frequency = "bi-weekly" THEN Ok(PlusDays(last_date, 14))
    ELSE IF frequency = "monthly" THEN
        IF last_date.month = 12 THEN replace(last_date, last_date.year + 1, 1)
        ELSE replace(last_date, last_date.year, last_date.month + 1)
    ELSE IF frequency = "yearly" THEN replace(last_date, last_date.year + 1, last_date.month)
    ELSE Ok(PlusDays(last_date, 1))

(***************************************************************************)
(* DatabaseManager: the two tables and their AUTOINCREMENT sequences       *)
(***************************************************************************)
EmptyDb ==
    [transactions |-> {}, recurring_transactions |-> {},
     seq_transactions |-> 0, seq_recurring |-> 0]

\* DatabaseManager.add_transaction
add_transaction(d, date, description, category, amount, trans_type, person) ==
    [d EXCEPT
       !.transactions = @ \cup
           {[id |-> d.seq_transactions + 1, date |-> date, description |-> description,
             category |-> category, amount |-> amount, type |-> trans_type,
             person |-> person]},
       !.seq_transactions = @ + 1]

\* DatabaseManager.add_recurring_transaction: last_processed is always NULL
add_recurring_transaction(d, description, category, amount, trans_type, person, frequency, start_date, end_date) ==
    [d EXCEPT
       !.recurring_transactions = @ \cup
           {[id |-> d.seq_recurring + 1, description |-> description,
             category |-> category, amount |-> amount, type |-> trans_type,
             person |-> person, frequency |-> frequency, start_date |-> start_date,
             end_date |-> end_date, last_processed |-> None, active |-> 1]},
       !.seq_recurring = @ + 1]

\* SELECT * column order of the transactions table
TransRow(t) ==
    <<t.id, t.date, t.description, t.category, t.amount, t.type, t.person, "created_at">>

\* SELECT * column order of the recurring_transactions table
RecRow(r) ==
    <<r.id, r.description, r.category, r.amount, r.type, r.person, r.frequency,
      r.start_date, r.end_date, r.last_processed, r.active, "created_at">>

RECURSIVE OrderById(_)
\* ORDER BY id
OrderById(rows) ==
    IF rows = {} THEN <<>>
    ELSE LET first == CHOOSE r \in rows : \A o \in rows : r.id <= o.id
         IN  <<first>> \o OrderById(rows \ {first})

\* DatabaseManager.get_recurring_transactions
get_recurring_transactions(d) ==
    LET rows == OrderById({r \in d.recurring_transactions : r.active = 1})
    IN  [i \in 1..Len(rows) |-> RecRow(rows[i])]

\* a <= b on TEXT dates, as sqlite compares 'YYYY-MM-DD' texts
TextLE(a, b) ==
    \/ a[1] < b[1]
    \/ a[1] = b[1] /\ a[2] < b[2]
    \/ a[1] = b[1] /\ a[2] = b[2] /\ a[3] <= b[3]

\* The filters dict; a key that is absent (or falsy) is None for the two dates
\* and "" for the three labels.
NoFilters == [start_date |-> None, end_date |-> None, category |-> "", person |-> "", type |-> ""]

\* The WHERE clause get_transactions builds
Matches(t, filters) ==
    /\ filters.start_date # None => TextLE(filters.start_date, t.date)
    /\ filters.end_date # None => TextLE(t.date, filters.end_date)
    /\ filters.category # "" => t.category = filters.category
    /\ filters.person # "" => t.person = filters.person
    /\ filters.type # "" => t.type = filters.type

RECURSIVE OrderByDateDescIdAsc(_)
\* An ordering by date descending that breaks ties by id ascending.
OrderByDateDescIdAsc(rows) ==
    IF rows = {} THEN <<>>
    ELSE LET first == CHOOSE r \in rows : \A o \in rows :
                          \/ o.date # r.date /\ TextLE(o.date, r.date)
                          \/ o.date = r.date /\ r.id <= o.id
         IN  <<first>> \o OrderByDateDescIdAsc(rows \ {first})

RECURSIVE OrderByDateDescIdDesc(_)
\* ORDER BY date DESC, id DESC
OrderByDateDescIdDesc(rows) ==
    IF rows = {} THEN <<>>
    ELSE LET first == CHOOSE r \in rows : \A o \in rows :
                          \/ o.date # r.date /\ TextLE(o.date, r.date)
                          \/ o.date = r.date /\ o.id <= r.id
         IN  <<first>> \o OrderByDateDescIdDesc(rows \ {first})

\* DatabaseManager.get_transactions
get_transactions(d, filters) ==
    LET rows == OrderByDateDescIdDesc({t \in d.transactions : Matches(t, filters)})
    IN  [i \in 1..Len(rows) |-> TransRow(rows[i])]

\* UPDATE recurring_transactions SET last_processed = ? WHERE id = ?
update_last_processed(d, id, text) ==
    [d EXCEPT !.recurring_transactions =
        {IF r.id = id THEN [r EXCEPT !.last_processed = text] ELSE r : r \in @}]

(***************************************************************************)
(* DatabaseManager.process_recurring_transactions                          *)
(***************************************************************************)
\* The insert without `processed_count += 1`.
materialize_uncounted(acc, rec, next_due) ==
    LET inserted == add_transaction(acc.db, strftime(next_due), At(rec, 1) \o " (Auto)",
                                    At(rec, 2), At(rec, 3), At(rec, 4), At(rec, 5))
    IN  [acc EXCEPT !.db = update_last_processed(inserted, At(rec, 0), strftime(next_due))]

\* The insert without the UPDATE of last_processed.
materialize_unmarked(acc, rec, next_due) ==
    [acc EXCEPT !.db = add_transaction(acc.db, strftime(next_due), At(rec, 1) \o " (Auto)",
                                       At(rec, 2), At(rec, 3), At(rec, 4), At(rec, 5)),
                !.processed_count = @ + 1]

\* The body of `if next_due <= today: if not end_date or ...`: insert the
\* transaction, set the rule's last_processed, count it.
materialize(acc, rec, next_due) ==
    LET inserted == add_transaction(acc.db, strftime(next_due), At(rec, 1) \o " (Auto)",
                                    At(rec, 2), At(rec, 3), At(rec, 4), At(rec, 5))
    IN  [acc EXCEPT !.db = update_last_processed(inserted, At(rec, 0), strftime(next_due)),
                    !.processed_count = @ + 1]

\* An iteration that does not look at end_date.
process_rec_ignoring_end_date(acc, rec, now) ==
    LET start_dt == strptime(At(rec, 7))
        last_processed_dt ==
            IF Truthy(At(rec, 9)) THEN strptime(At(rec, 9))
            ELSE IF start_dt.raised THEN ValueError
            ELSE Ok(PrevDay(start_dt.val))
        next_due ==
            IF last_processed_dt.raised THEN ValueError
            ELSE calculate_next_due_date(last_processed_dt.val, At(rec, 6))
    IN  IF start_dt.raised \/ last_processed_dt.raised \/ next_due.raised
        THEN [acc EXCEPT !.raised = TRUE]
        ELSE IF DateLE(next_due.val, now) THEN materialize(acc, rec, next_due.val)
        ELSE acc

\* One iteration of `for rec in recurring`; an exception leaves the loop.
process_rec(acc, rec, now) ==
    LET start_date     == At(rec, 7)
        end_date       == At(rec, 8)
        last_processed == At(rec, 9)
        frequency      == At(rec, 6)
        start_dt       == strptime(start_date)
        last_processed_dt ==
            IF Truthy(last_processed) THEN strptime(last_processed)
            ELSE IF start_dt.raised THEN ValueError
            ELSE Ok(PrevDay(start_dt.val))
        next_due ==
            IF last_processed_dt.raised THEN ValueError
            ELSE calculate_next_due_date(last_processed_dt.val, frequency)
    IN  IF start_dt.raised \/ last_processed_dt.raised \/ next_due.raised
        THEN [acc EXCEPT !.raised = TRUE]
        ELSE IF DateLE(next_due.val, now)
        THEN IF ~Truthy(end_date)
             THEN materialize(acc, rec, next_due.val)
             ELSE LET end_dt == strptime(end_date)
                  IN  IF end_dt.raised THEN [acc EXCEPT !.raised = TRUE]
                      ELSE IF DateLE(now, end_dt.val)
                      THEN materialize(acc, rec, next_due.val)
                      ELSE acc
        ELSE acc

RECURSIVE process_loop(_, _, _, _)
\* `for rec in recurring:` from the i-th row on; rec and the state after its
\* iteration are bound to their values, each computed once
process_loop(acc, recurring, i, now) ==
    IF i > Len(recurring) \/ acc.raised THEN acc
    ELSE CHOOSE out \in {process_loop(next, recurring, i + 1, now) :
                            next \in {process_rec(acc, rec, now) : rec \in {recurring[i]}}} : TRUE

\* The whole call: the rows are read once, before the loop.
process_all(d, now) ==
    CHOOSE out \in {process_loop([db |-> d, processed_count |-> 0, raised |-> FALSE],
                                 recurring, 1, now) :
                        recurring \in {get_recurring_transactions(d)}} : TRUE

\* The iterations before the k-th, as the call runs them.
process_before(d, now, k) ==
    CHOOSE out \in {process_loop([db |-> d, processed_count |-> 0, raised |-> FALSE],
                                 SubSeq(recurring, 1, k - 1), 1, now) :
                        recurring \in {get_recurring_transactions(d)}} : TRUE

\* The due date the k-th iteration of the call materializes: a set with that
\* text, or the empty set when the call raises before, or the rule is not
\* due, or it is past its end_date.
materialized_at(d, now, k) ==
    LET rec    == get_recurring_transactions(d)[k]
        before == process_before(d, now, k)
        at     == process_rec(before, rec, now)
    IN  IF before.raised \/ at.raised \/ at.processed_count = before.processed_count
        THEN {}
        ELSE {r.last_processed : r \in {q \in at.db.recurring_transactions : q.id = At(rec, 0)}}

\* The call when the process dies in the k-th iteration after add_transaction
\* has committed its INSERT (its own connection, lines 78-85) and before the
\* UPDATE of last_processed is committed (lines 169-176): the iterations
\* before are kept, the k-th leaves its transaction and the rule as it was.
process_killed(d, now, k) ==
    LET rec    == get_recurring_transactions(d)[k]
        before == process_before(d, now, k)
        at     == process_rec(before, rec, now)
    IN  [at EXCEPT !.db = update_last_processed(at.db, At(rec, 0), At(rec, 9))]

(***************************************************************************)
(* SaveLoadManager: the JSON snapshot                                      *)
(***************************************************************************)
Null == <<"null">>

\* the columns of a recurring_transactions row that may hold NULL:
\* end_date and last_processed (Python's 0-based positions)
Nullable == {8, 9}

\* json.dump of a row: a list, None written as null
json_dump(row, nullable) ==
    [c \in 1..Len(row) |-> IF c - 1 \in nullable /\ row[c] = None THEN Null ELSE row[c]]

\* json.load of a row: a list, null read as None
json_load(row, nullable) ==
    [c \in 1..Len(row) |-> IF c - 1 \in nullable /\ row[c] = Null THEN None ELSE row[c]]

\* SaveLoadManager.export_data: the document written to the file
export_data(d) ==
    LET transactions == get_transactions(d, NoFilters)
        recurring    == get_recurring_transactions(d)
    IN  [transactions |->
            [i \in 1..Len(transactions) |-> json_dump(transactions[i], {})],
         recurring_transactions |->
            [i \in 1..Len(recurring) |-> json_dump(recurring[i], Nullable)]]

\* json.load(f): the rows of the document
load(document) ==
    [transactions |->
        [i \in 1..Len(document.transactions) |-> json_load(document.transactions[i], {})],
     recurring_transactions |->
        [i \in 1..Len(document.recurring_transactions) |->
            json_load(document.recurring_transactions[i], Nullable)]]

\* A duplicate test on date, category and description.
same_transaction_by_category(t, trans) ==
    At(t, 1) = At(trans, 1) /\ At(t, 3) = At(trans, 3) /\ At(t, 2) = At(trans, 2)

\* t[2] == trans[2] and t[4] == trans[4] and t[1] == trans[1]
same_transaction(t, trans) ==
    At(t, 2) = At(trans, 2) /\ At(t, 4) = At(trans, 4) /\ At(t, 1) = At(trans, 1)

\* A duplicate test on rules that also compares last_processed.
same_recurring_with_last_processed(r, rec) ==
    At(r, 1) = At(rec, 1) /\ At(r, 4) = At(rec, 4) /\ At(r, 6) = At(rec, 6)
        /\ At(r, 9) = At(rec, 9)

\* r[1] == rec[1] and r[4] == rec[4] and r[6] == rec[6]
same_recurring(r, rec) ==
    At(r, 1) = At(rec, 1) /\ At(r, 4) = At(rec, 4) /\ At(r, 6) = At(rec, 6)

\* one iteration of `for trans in data.get('transactions', [])`
import_transaction(d, trans, merge) ==
    LET existing == get_transactions(d, [NoFilters EXCEPT !.start_date = At(trans, 1),
                                                          !.end_date = At(trans, 1)])
    IN  IF merge /\ \E i \in 1..Len(existing) : same_transaction(existing[i], trans)
        THEN d
        ELSE add_transaction(d, At(trans, 1), At(trans, 2), At(trans, 3), At(trans, 4),
                             At(trans, 5), At(trans, 6))

\* one iteration of `for rec in data.get('recurring_transactions', [])`
import_recurring(d, rec, merge) ==
    LET existing_rec == get_recurring_transactions(d)
    IN  IF merge /\ \E i \in 1..Len(existing_rec) : same_recurring(existing_rec[i], rec)
        THEN d
        ELSE add_recurring_transaction(d, At(rec, 1), At(rec, 2), At(rec, 3), At(rec, 4),
                                       At(rec, 5), At(rec, 6), At(rec, 7), At(rec, 8))

RECURSIVE import_transactions(_, _, _, _)
import_transactions(d, rows, i, merge) ==
    IF i > Len(rows) THEN d
    ELSE import_transactions(import_transaction(d, rows[i], merge), rows, i + 1, merge)

RECURSIVE import_recurrings(_, _, _, _)
import_recurrings(d, rows, i, merge) ==
    IF i > Len(rows) THEN d
    ELSE import_recurrings(import_recurring(d, rows[i], merge), rows, i + 1, merge)

\* A clearing that deletes the transactions and keeps the rules.
clear_transactions_only(d) == [d EXCEPT !.transactions = {}]

\* DELETE FROM transactions; DELETE FROM recurring_transactions.  The
\* AUTOINCREMENT sequences are kept.
clear_existing(d) == [d EXCEPT !.transactions = {}, !.recurring_transactions = {}]

\* SaveLoadManager.import_data on a document that was read and parsed
import_data(d, document, merge) ==
    LET data    == load(document)
        cleared == IF merge THEN d ELSE clear_existing(d)
        withT   == import_transactions(cleared, data.transactions, 1, merge)
    IN  import_recurrings(withT, data.recurring_transactions, 1, merge)

(***************************************************************************)
(* import_data with its try / except: the file may be missing, may hold a  *)
(* text that is no JSON, a JSON text that is no object, or a snapshot with *)
(* a row cut after its first element.                                      *)
(***************************************************************************)
\* a file whose text json.load rejects (JSONDecodeError)
NotJson == [text |-> "budget"]

\* a file holding the JSON text `[]`: json.load returns a list
JsonArray == [array |-> <<>>]

parses(document) == "text" \notin DOMAIN document

is_object(document) == "array" \notin DOMAIN document

\* a row with its id only: trans[1] / rec[1] raises IndexError
truncated(row) == Len(row) < 2

\* the rows before the first truncated one
before_truncated(rows) ==
    SubSeq(rows, 1, (CHOOSE k \in 1..(Len(rows) + 1) :
                        /\ k <= Len(rows) => truncated(rows[k])
                        /\ \A i \in 1..(k - 1) : ~truncated(rows[i])) - 1)

\* import_data from `if not merge:` on: data.get raises AttributeError on a
\* list, a truncated row raises IndexError; what was written until then stays
import_parsed(d, document, merge) ==
    LET cleared == IF merge THEN d ELSE clear_existing(d)
    IN  IF ~is_object(document) THEN [db |-> cleared, value |-> FALSE]
        ELSE LET data         == load(document)
                 transactions == before_truncated(data.transactions)
                 recurring    == before_truncated(data.recurring_transactions)
                 withT        == import_transactions(cleared, transactions, 1, merge)
             IN  IF Len(transactions) < Len(data.transactions)
                 THEN [db |-> withT, value |-> FALSE]
                 ELSE [db |-> import_recurrings(withT, recurring, 1, merge),
                       value |-> Len(recurring) = Len(data.recurring_transactions)]

\* An import that clears the store before it opens the file.
import_file_clearing_first(d, f, merge) ==
    IF f = <<>> \/ ~parses(f[1])
    THEN [db |-> IF merge THEN d ELSE clear_existing(d), value |-> FALSE]
    ELSE import_parsed(d, f[1], merge)

\* SaveLoadManager.import_data: open and json.load raise inside the try,
\* before anything is written; every exception is caught and gives False
import_file(d, f, merge) ==
    IF f = <<>> \/ ~parses(f[1]) THEN [db |-> d, value |-> FALSE]
    ELSE import_parsed(d, f[1], merge)

(***************************************************************************)
(* BudgetApp: the chart, the summary, the two entry forms and the start of *)
(* the program.  The text of an Entry or Combobox is a string, the text of *)
(* a date field a date text as above (empty: <<>>), the text of an amount  *)
(* field a sequence of characters.                                         *)
(***************************************************************************)
RECURSIVE sort_by_date(_)
\* transactions.sort(key=lambda x: x[1]): stable, ascending by the date text
sort_by_date(rows) ==
    IF rows = <<>> THEN <<>>
    ELSE LET first == CHOOSE i \in 1..Len(rows) :
                          /\ \A j \in 1..Len(rows) : TextLE(At(rows[i], 1), At(rows[j], 1))
                          /\ \A j \in 1..(i - 1) : At(rows[j], 1) # At(rows[i], 1)
         IN  <<rows[first]>> \o
             sort_by_date([k \in 1..(Len(rows) - 1) |->
                              IF k < first THEN rows[k] ELSE rows[k + 1]])

\* A chart amount that counts every transaction as income.
signed_amount_unsigned(trans) == At(trans, 4)

\* amount = trans[4] if trans[5] == 'Income' else -trans[4]
signed_amount(trans) == IF At(trans, 5) = "Income" THEN At(trans, 4) ELSE 0 - At(trans, 4)

RECURSIVE running_balances(_, _, _)
\* `for trans in transactions:` from the i-th row on: dates.append(...),
\* balances.append(running_balance)
running_balances(transactions, i, running_balance) ==
    IF i > Len(transactions) THEN <<>>
    ELSE LET balance == running_balance + signed_amount(transactions[i])
         IN  <<[date |-> strptime(At(transactions[i], 1)), balance |-> balance]>> \o
             running_balances(transactions, i + 1, balance)

\* BudgetApp.update_chart: the points it plots, or the ValueError of strptime
update_chart(d, filters) ==
    LET points == running_balances(sort_by_date(get_transactions(d, filters)), 1, 0)
    IN  IF \E i \in 1..Len(points) : points[i].date.raised THEN ValueError
        ELSE Ok([i \in 1..Len(points) |-> <<points[i].date.val, points[i].balance>>])

RECURSIVE sum_of(_, _, _)
\* sum(t[4] for t in transactions if t[5] == trans_type), from the i-th row on
sum_of(transactions, i, trans_type) ==
    IF i > Len(transactions) THEN 0
    ELSE (IF At(transactions[i], 5) = trans_type THEN At(transactions[i], 4) ELSE 0)
         + sum_of(transactions, i + 1, trans_type)

\* BudgetApp.update_summary: total_income, total_expenses, net_balance
update_summary(d, filters) ==
    LET transactions   == get_transactions(d, filters)
        total_income   == sum_of(transactions, 1, "Income")
        total_expenses == sum_of(transactions, 1, "Expense")
    IN  [total_income |-> total_income, total_expenses |-> total_expenses,
         net_balance |-> total_income - total_expenses]

\* str.strip() of a text that is blank or has no blank at its ends
strip(text) == IF text = " " THEN "" ELSE text

DigitChars == <<"0", "1", "2", "3", "4", "5", "6", "7", "8", "9">>

RECURSIVE digits_value(_, _)
\* the number the first n characters of a digit string write
digits_value(chars, n) ==
    IF n = 0 THEN 0
    ELSE 10 * digits_value(chars, n - 1)
         + (CHOOSE v \in 0..9 : DigitChars[v + 1] = chars[n])

\* float(text) of a text of a sign and digits: ValueError on any other text
\* of the inputs (letters, the empty text)
float(text) ==
    LET signed == text # <<>> /\ text[1] \in {"+", "-"}
        digits == IF signed THEN Tail(text) ELSE text
    IN  IF digits = <<>> \/ \E i \in 1..Len(digits) : \A v \in 1..10 : DigitChars[v] # digits[i]
        THEN ValueError
        ELSE Ok((IF signed /\ text[1] = "-" THEN 0 - 1 ELSE 1) * digits_value(digits, Len(digits)))

\* the filter fields of the main tab left empty
EmptyFilterFields == NoFilters

\* BudgetApp.add_transaction: the store afterwards and the message box shown
BudgetApp_add_transaction(d, form) ==
    LET date        == form.date
        description == strip(form.description)
        category    == strip(form.category)
        amount      == float(form.amount)
        trans_type  == form.type
        person      == form.person
    IN  IF amount.raised THEN [db |-> d, message |-> "Please enter a valid amount"]
        ELSE IF date = <<>> \/ "" \in {description, category, trans_type, person}
        THEN [db |-> d, message |-> "Please fill all fields"]
        ELSE LET stored == add_transaction(d, date, description, category, amount.val,
                                           trans_type, person)
             IN  IF update_chart(stored, EmptyFilterFields).raised
                 THEN [db |-> stored, message |-> "Please enter a valid amount"]
                 ELSE [db |-> stored, message |-> "Transaction added successfully!"]

\* BudgetApp.add_recurring_transaction: the store afterwards and the message
\* box shown; no end_date is passed
BudgetApp_add_recurring_transaction(d, form) ==
    LET description == strip(form.description)
        category    == strip(form.category)
        amount      == float(form.amount)
        trans_type  == form.type
        person      == form.person
        frequency   == form.frequency
        start_date  == form.start_date
    IN  IF amount.raised THEN [db |-> d, message |-> "Please enter a valid amount"]
        ELSE IF start_date = <<>>
                \/ "" \in {description, category, trans_type, person, frequency}
        THEN [db |-> d, message |-> "Please fill all fields"]
        ELSE [db |-> add_recurring_transaction(d, description, category, amount.val,
                                               trans_type, person, frequency, start_date, None),
              message |-> "Recurring transaction added successfully!"]

\* main() up to root.mainloop(): BudgetApp.__init__ runs the engine and draws
\* the chart, then main runs the engine again.  calls is the number of calls
\* of process_recurring_transactions made, processed the count of the last.
main(d, now) ==
    LET first  == process_all(d, now)
        second == process_all(first.db, now)
    IN  IF first.raised \/ update_chart(first.db, EmptyFilterFields).raised
        THEN [db |-> first.db, raised |-> TRUE, calls |-> 1, processed |-> 0 - 1]
        ELSE [db |-> second.db, raised |-> second.raised, calls |-> 2,
              processed |-> IF second.raised THEN 0 - 1 ELSE second.processed_count]

(***************************************************************************)
(* Bounds and inputs                                                       *)
(***************************************************************************)
MaxRules == 2

MaxTrans == 3

Frequencies == {"daily", "weekly", "bi-weekly", "monthly", "yearly"}

\* start_date texts: the spec's example (the day after a 31st) and the day
\* after a leap day
StartDates == {<<2024, 1, 1>>, <<2024, 3, 1>>}

EndDates == {None, <<2024, 1, 20>>}

\* the values datetime.now().date() takes, in order
Clock == <<Date(2024, 1, 10), Date(2024, 2, 1), Date(2025, 1, 5)>>

OpProcess == "process_recurring_transactions"

OpImport == "import_data"

OpKilled == "process_recurring_transactions killed"

(***************************************************************************)
(* Actions                                                                 *)
(***************************************************************************)
\* What the last operation gave back: its name, whether it raised, its return
\* value (-1 when it raised), for the engine the ids of the rules whose
\* last_processed it set and whether the engine ran just before it (calls = 2),
\* for an import its merge argument and whether the export ran just before it
\* (calls = 2).
Returned(op, value) ==
    [op |-> op, raised |-> FALSE, value |-> value, calls |-> 1, advanced |-> {},
     arg |-> None]

\* A bound on the user, not on the program: the ledger is edited and the
\* engine run only while no export file is kept; a kept file is imported or
\* removed first.
NoExportFile == file = <<>>

\* db_manager.add_recurring_transaction(...) with the rule's fields as input
AddRecurring(rules) ==
    /\ db.seq_recurring < MaxRules
    /\ NoExportFile
    /\ \E r \in rules :
          db' = add_recurring_transaction(db, r.description, r.category, r.amount, r.type,
                                          r.person, r.frequency, r.start_date, r.end_date)
    /\ ret' = Returned("add_recurring_transaction", db'.seq_recurring)
    /\ UNCHANGED <<today, file>>

\* db_manager.add_transaction(...) with the transaction's fields as input
AddTransaction(inputs) ==
    /\ db.seq_transactions < MaxTrans
    /\ NoExportFile
    /\ \E t \in inputs :
          db' = add_transaction(db, t.date, t.description, t.category, t.amount, t.type,
                                t.person)
    /\ ret' = Returned("add_transaction", db'.seq_transactions)
    /\ UNCHANGED <<today, file>>

\* save_load_manager.export_data(filepath)
ExportData ==
    /\ NoExportFile
    /\ file' = <<export_data(db)>>
    /\ ret' = Returned("export_data", TRUE)
    /\ UNCHANGED <<db, today>>

\* a file exported on another device is put in the place of the export file
ReceiveFile(others) ==
    /\ NoExportFile
    /\ \E document \in others : file' = <<document>>
    /\ ret' = Returned("receive", 0)
    /\ UNCHANGED <<db, today>>

\* save_load_manager.import_data(filepath, merge) of the file
ImportData ==
    \E merge \in BOOLEAN :
        /\ file # <<>>
        /\ db.seq_transactions + Len(file[1].transactions) <= MaxTrans
        /\ db.seq_recurring + Len(file[1].recurring_transactions) <= MaxRules
        /\ db' = import_data(db, file[1], merge)
        /\ ret' = [Returned("import_data", TRUE) EXCEPT
                      !.arg = <<merge>>, !.calls = IF ret.op = "export_data" THEN 2 ELSE 1]
        /\ UNCHANGED <<today, file>>

\* db_manager.process_recurring_transactions(): returns the count or raises
ProcessCall ==
    /\ \E out \in {process_all(db, today)} :
           /\ db' = out.db
           /\ ret' = [op |-> OpProcess, raised |-> out.raised,
                      value |-> IF out.raised THEN -1 ELSE out.processed_count,
                      calls |-> IF ret.op = OpProcess THEN 2 ELSE 1,
                      advanced |-> {r.id : r \in db.recurring_transactions
                                                \ out.db.recurring_transactions},
                      arg |-> None]
    /\ UNCHANGED <<today, file>>

\* the call while the ledger is within its bound and no export file is kept
ProcessRecurring ==
    /\ db.seq_transactions < MaxTrans
    /\ NoExportFile
    /\ ProcessCall

\* The call is made and the process dies in the iteration of some rule that
\* the call materializes, between the two writes.  arg is the rule's id and
\* the due date of the transaction left behind.
KilledProcess ==
    /\ db.seq_transactions < MaxTrans
    /\ NoExportFile
    /\ \E k \in 1..Len(get_recurring_transactions(db)) :
       \E date \in materialized_at(db, today, k) :
       \E out \in {process_killed(db, today, k)} :
           /\ db' = out.db
           /\ ret' = [op |-> OpKilled, raised |-> TRUE, value |-> -1, calls |-> 1,
                      advanced |-> {r.id : r \in db.recurring_transactions
                                                \ out.db.recurring_transactions},
                      arg |-> <<At(get_recurring_transactions(db)[k], 0), date>>]
    /\ UNCHANGED <<today, file>>

\* the user removes the export file
RemoveFile ==
    /\ file # <<>>
    /\ file' = <<>>
    /\ ret' = Returned("remove", 0)
    /\ UNCHANGED <<db, today>>

\* time passes: datetime.now() moves to a later day
Tick ==
    /\ \E i \in 1..Len(Clock) : DateLT(today, Clock[i]) /\ today' = Clock[i]
    /\ ret' = Returned("tick", 0)
    /\ UNCHANGED <<db, file>>

Init ==
    /\ db = EmptyDb
    /\ today = Clock[1]
    /\ file = <<>>
    /\ ret = Returned("init", 0)

(***************************************************************************)
(* The rule engine alone: rules are entered, time passes, the engine runs. *)
(***************************************************************************)
EngineRules ==
    {[description |-> "Rent", category |-> "Housing", amount |-> 100, type |-> "Expense",
      person |-> "Both", frequency |-> f, start_date |-> s, end_date |-> e] :
        f \in Frequencies, s \in StartDates, e \in EndDates}

EngineAddRecurring == AddRecurring(EngineRules)

NextEngine == EngineAddRecurring \/ ProcessRecurring \/ Tick

SpecEngine == Init /\ [][NextEngine]_vars

(***************************************************************************)
(* Entered transactions with export and import.  The transactions are a    *)
(* base record and the records that differ from it in one field.           *)
(***************************************************************************)
BaseTransaction ==
    [date |-> <<2024, 1, 5>>, description |-> "Rent", category |-> "Housing",
     amount |-> 100, type |-> "Expense", person |-> "Both"]

Transactions ==
    {BaseTransaction,
     [BaseTransaction EXCEPT !.date = <<2024, 1, 6>>],
     [BaseTransaction EXCEPT !.description = "Gym"],
     [BaseTransaction EXCEPT !.category = "Health"],
     [BaseTransaction EXCEPT !.amount = 200]}

\* The stores of another device with one or two entered transactions
OtherEntered ==
    {add_transaction(EmptyDb, t.date, t.description, t.category, t.amount, t.type, t.person) :
        t \in Transactions}

OtherEnteredTwice ==
    {add_transaction(d, t.date, t.description, t.category, t.amount, t.type, t.person) :
        d \in OtherEntered, t \in Transactions}

TransactionDocuments == {export_data(d) : d \in OtherEntered \cup OtherEnteredTwice}

EnterTransaction == AddTransaction(Transactions)

ReceiveTransactions == ReceiveFile(TransactionDocuments)

NextTransactions ==
    \/ EnterTransaction
    \/ ExportData
    \/ ReceiveTransactions
    \/ ImportData
    \/ RemoveFile

SpecTransactions == Init /\ [][NextTransactions]_vars

(***************************************************************************)
(* Rules and the engine with export and import.  The rules are a base      *)
(* record and the records that differ from it in one field.                *)
(***************************************************************************)
BaseRule ==
    [description |-> "Rent", category |-> "Housing", amount |-> 100, type |-> "Expense",
     person |-> "Both", frequency |-> "daily", start_date |-> <<2024, 1, 1>>,
     end_date |-> None]

Rules ==
    {BaseRule,
     [BaseRule EXCEPT !.description = "Gym"],
     [BaseRule EXCEPT !.type = "Income"],
     [BaseRule EXCEPT !.frequency = "weekly"],
     [BaseRule EXCEPT !.end_date = <<2024, 1, 20>>]}

\* The stores of another device with one rule, the engine run or not
OtherRuled ==
    {add_recurring_transaction(EmptyDb, r.description, r.category, r.amount, r.type,
                               r.person, r.frequency, r.start_date, r.end_date) :
        r \in Rules}

\* The store of another device with the base rule entered twice
OtherRuledTwice ==
    {add_recurring_transaction(d, r.description, r.category, r.amount, r.type,
                               r.person, r.frequency, r.start_date, r.end_date) :
        d \in {o \in OtherRuled : \E b \in o.recurring_transactions : b.frequency = "daily"},
        r \in {BaseRule}}

RuleDocuments ==
    {export_data(d) : d \in OtherRuled \cup OtherRuledTwice} \cup
    {export_data(process_all(d, Clock[1]).db) : d \in OtherRuled}

EnterRecurring == AddRecurring(Rules)

ReceiveRules == ReceiveFile(RuleDocuments)

NextRules ==
    \/ EnterRecurring
    \/ ProcessRecurring
    \/ ExportData
    \/ ReceiveRules
    \/ ImportData
    \/ RemoveFile

SpecRules == Init /\ [][NextRules]_vars

(***************************************************************************)
(* The program as its user drives it: the two entry forms are submitted,   *)
(* and the program is started again (main).  now stays at its first value. *)
(***************************************************************************)
OpAddTransaction == "BudgetApp.add_transaction"

OpAddRecurring == "BudgetApp.add_recurring_transaction"

OpMain == "main"

\* the amount field: a number, a negative number, letters, nothing
AmountTexts == {<<"1", "0", "0">>, <<"-", "5">>, <<"a", "b", "c">>, <<>>}

\* a date field: a date, a text that is no calendar date ('2024-02-30'), nothing
DateTexts(date) == {date, <<2024, 2, 30>>, <<>>}

TransactionForms ==
    {[date |-> d, description |-> s, category |-> "Rent", amount |-> a,
      type |-> "Expense", person |-> "Both"] :
        d \in DateTexts(<<2024, 1, 5>>), s \in {"Rent", " "}, a \in AmountTexts}

RecurringForms ==
    {[description |-> s, category |-> "Rent", amount |-> a, type |-> "Expense",
      person |-> "Both", frequency |-> "daily", start_date |-> d] :
        d \in DateTexts(<<2024, 1, 1>>), s \in {"Rent", " "}, a \in AmountTexts}

\* the Add Transaction button
SubmitTransaction ==
    /\ db.seq_transactions < MaxTrans
    /\ \E form \in TransactionForms :
          LET out == BudgetApp_add_transaction(db, form)
          IN  /\ db' = out.db
              /\ ret' = [Returned(OpAddTransaction, out.message) EXCEPT !.arg = <<form>>]
    /\ UNCHANGED <<today, file>>

\* the Add Recurring button
SubmitRecurring ==
    /\ db.seq_recurring < MaxRules
    /\ \E form \in RecurringForms :
          LET out == BudgetApp_add_recurring_transaction(db, form)
          IN  /\ db' = out.db
              /\ ret' = [Returned(OpAddRecurring, out.message) EXCEPT !.arg = <<form>>]
    /\ UNCHANGED <<today, file>>

\* the program is closed and started: main() up to the main loop
Launch ==
    /\ db.seq_transactions < MaxTrans
    /\ LET out == main(db, today)
       IN  /\ db' = out.db
           /\ ret' = [op |-> OpMain, raised |-> out.raised, value |-> out.processed,
                      calls |-> out.calls,
                      advanced |-> {r.id : r \in db.recurring_transactions
                                                \ out.db.recurring_transactions},
                      arg |-> None]
    /\ UNCHANGED <<today, file>>

NextApp == SubmitTransaction \/ SubmitRecurring \/ Launch

SpecApp == Init /\ [][NextApp]_vars

(***************************************************************************)
(* The read side: transactions are entered, get_transactions is called     *)
(* with a filters dict, and the Apply Filter button redraws the chart and  *)
(* the summary.                                                            *)
(***************************************************************************)
OpQuery == "get_transactions"

OpApplyFilters == "apply_filters"

\* The example of the specification (income 100 on 2024-01-01, expense 40
\* on 2024-01-02), an income on the day of the expense, and the expense
\* with another date or person.
Salary ==
    [date |-> <<2024, 1, 1>>, description |-> "Salary", category |-> "Income",
     amount |-> 100, type |-> "Income", person |-> "Person 1"]

Lunch ==
    [date |-> <<2024, 1, 2>>, description |-> "Lunch", category |-> "Food",
     amount |-> 40, type |-> "Expense", person |-> "Both"]

QueryTransactions ==
    {Salary, Lunch,
     [Salary EXCEPT !.date = <<2024, 1, 2>>],
     [Lunch EXCEPT !.date = <<2024, 1, 3>>],
     [Lunch EXCEPT !.person = "Person 1"]}

\* the filters dicts: every key absent or present
Filters ==
    {[start_date |-> s, end_date |-> e, category |-> c, person |-> p, type |-> t] :
        s \in {None, <<2024, 1, 2>>}, e \in {None, <<2024, 1, 2>>},
        c \in {"", "Food"}, p \in {"", "Both"}, t \in {"", "Expense"}}

\* the filters update_chart and update_summary build from the two date fields
ChartFilters == {f \in Filters : f.category = "" /\ f.person = "" /\ f.type = ""}

EnterQueried == AddTransaction(QueryTransactions)

\* db_manager.get_transactions(filters)
Query ==
    /\ \E filters \in Filters :
          ret' = [Returned(OpQuery, get_transactions(db, filters)) EXCEPT !.arg = <<filters>>]
    /\ UNCHANGED <<db, today, file>>

\* BudgetApp.apply_filters with the two date fields set: the chart's points
\* and the summary's totals
ApplyFilters ==
    /\ \E filters \in ChartFilters :
          LET chart == update_chart(db, filters)
          IN  ret' = [Returned(OpApplyFilters,
                               [points |-> chart.val, summary |-> update_summary(db, filters)])
                         EXCEPT !.raised = chart.raised, !.arg = <<filters>>]
    /\ UNCHANGED <<db, today, file>>

NextQuery == EnterQueried \/ Query \/ ApplyFilters

SpecQuery == Init /\ [][NextQuery]_vars

(***************************************************************************)
(* Import of any file: transactions and a rule are entered, a file is put  *)
(* in the place of the export file or there is none, import_data is called.*)
(***************************************************************************)
FileTransactions == {BaseTransaction, [BaseTransaction EXCEPT !.date = <<2024, 1, 6>>]}

FileRules == {BaseRule}

\* the snapshot of another device with one transaction, and that snapshot
\* with a second row cut after its id
OtherSnapshot ==
    export_data(add_transaction(EmptyDb, BaseTransaction.date, "Gym", BaseTransaction.category,
                                BaseTransaction.amount, BaseTransaction.type,
                                BaseTransaction.person))

TruncatedSnapshot ==
    [OtherSnapshot EXCEPT !.transactions = Append(@, <<2>>)]

Files == {NotJson, JsonArray, OtherSnapshot, TruncatedSnapshot}

EnterFiled == AddTransaction(FileTransactions)

EnterFiledRule == AddRecurring(FileRules)

ReceiveAnyFile == ReceiveFile(Files)

\* save_load_manager.import_data(filepath, merge) of whatever is at filepath
ImportFile ==
    \E merge \in BOOLEAN :
        LET out == import_file(db, file, merge)
        IN  /\ out.db.seq_transactions <= MaxTrans
            /\ out.db.seq_recurring <= MaxRules
            /\ db' = out.db
            /\ ret' = [Returned(OpImport, out.value) EXCEPT !.arg = <<merge>>]
            /\ UNCHANGED <<today, file>>

NextFiles ==
    \/ EnterFiled
    \/ EnterFiledRule
    \/ ExportData
    \/ ReceiveAnyFile
    \/ ImportFile
    \/ RemoveFile

SpecFiles == Init /\ [][NextFiles]_vars

(***************************************************************************)
(* Merging: transactions and rules are entered, the snapshot of another    *)
(* device is received and imported, once or again.  The snapshots hold two *)
(* transactions and two rules, of one dedup key or of two, or a rule the   *)
(* engine has advanced with the transaction it made, or a row cut short.   *)
(***************************************************************************)
\* the second has the key (date, description, amount) of the first
MergeTransactions ==
    {BaseTransaction,
     [BaseTransaction EXCEPT !.category = "Health"],
     [BaseTransaction EXCEPT !.date = <<2024, 1, 6>>]}

\* the second has the key (description, type, frequency) of the first
MergeRules ==
    {BaseRule,
     [BaseRule EXCEPT !.category = "Health"],
     [BaseRule EXCEPT !.frequency = "weekly"]}

\* the stores of another device: two transactions, then the base rule and
\* a second rule
OtherMerged ==
    {add_recurring_transaction(
         add_recurring_transaction(
             add_transaction(
                 add_transaction(EmptyDb, t.date, t.description, t.category, t.amount,
                                 t.type, t.person),
                 u.date, u.description, u.category, u.amount, u.type, u.person),
             BaseRule.description, BaseRule.category, BaseRule.amount, BaseRule.type,
             BaseRule.person, BaseRule.frequency, BaseRule.start_date, BaseRule.end_date),
         r.description, r.category, r.amount, r.type, r.person, r.frequency, r.start_date,
         r.end_date) :
        t \in {BaseTransaction}, u \in MergeTransactions, r \in MergeRules \ {BaseRule}}

MergeSnapshots ==
    {export_data(d) : d \in OtherMerged} \cup
    {export_data(process_all(d, Clock[1]).db) :
        d \in {o \in OtherRuled : \E b \in o.recurring_transactions : b.type = "Income"}} \cup
    {TruncatedSnapshot}

\* entered on this device: records of one dedup key
EnterMerged == AddTransaction({t \in MergeTransactions : t.date = BaseTransaction.date})

EnterMergedRule == AddRecurring({r \in MergeRules : r.frequency = BaseRule.frequency})

ReceiveSnapshot == ReceiveFile(MergeSnapshots)

\* save_load_manager.import_data(filepath) with its default merge=True;
\* calls = 2 when the call before it was the same call, of the same file
ImportAgain ==
    \E merge \in {TRUE} :
    \E out \in {import_file(db, file, merge)} :
        /\ out.db.seq_transactions <= MaxTrans
        /\ out.db.seq_recurring <= MaxRules
        /\ db' = out.db
        /\ ret' = [Returned(OpImport, out.value) EXCEPT
                      !.arg = <<merge>>,
                      !.calls = IF ret.op = OpImport /\ ret.arg = <<merge>> THEN 2 ELSE 1]
        /\ UNCHANGED <<today, file>>

NextMerge ==
    \/ EnterMerged
    \/ EnterMergedRule
    \/ ReceiveSnapshot
    \/ ImportAgain
    \/ RemoveFile

SpecMerge == Init /\ [][NextMerge]_vars

(***************************************************************************)
(* Catching up: rules have been entered, now stays where it is, and the    *)
(* caller calls process_recurring_transactions() again and again.  With    *)
(* now fixed a rule is advanced finitely often, so the ledger needs no     *)
(* bound here.                                                             *)
(***************************************************************************)
RECURSIVE StoresWith(_, _)
\* the stores after up to n calls of add_recurring_transaction
StoresWith(rules, n) ==
    IF n = 0 THEN {EmptyDb}
    ELSE LET fewer == StoresWith(rules, n - 1)
         IN  fewer \cup
             {add_recurring_transaction(d, r.description, r.category, r.amount, r.type,
                                        r.person, r.frequency, r.start_date, r.end_date) :
                 d \in fewer, r \in rules}

\* rules that are behind by several periods (daily) or advanced by
\* datetime.replace (monthly, yearly)
CatchUpRules == {r \in EngineRules : r.frequency \in {"daily", "monthly", "yearly"}}

InitCatchUp ==
    /\ db \in StoresWith(CatchUpRules, MaxRules)
    /\ today \in {Clock[1], Clock[2]}
    /\ file = <<>>
    /\ ret = Returned("init", 0)

CatchUp == ProcessCall

NextCatchUp == CatchUp

\* the caller does call again
SpecCatchUp == InitCatchUp /\ [][NextCatchUp]_vars /\ WF_vars(CatchUp)

(***************************************************************************)
(* The engine with a process that can die between the INSERT and the       *)
(* UPDATE.  Every rule has a description of its own, so that a generated   *)
(* transaction ("<description> (Auto)") names its rule.                    *)
(***************************************************************************)
CrashRules ==
    {[description |-> n, category |-> "Housing", amount |-> 100, type |-> "Expense",
      person |-> "Both", frequency |-> f, start_date |-> <<2024, 1, 1>>, end_date |-> e] :
        n \in {"Rent", "Gym"}, f \in {"daily", "monthly"}, e \in EndDates}

CrashAddRecurring ==
    AddRecurring({r \in CrashRules :
                     r.description \notin {q.description : q \in db.recurring_transactions}})

NextCrash == CrashAddRecurring \/ ProcessRecurring \/ KilledProcess \/ Tick

SpecCrash == Init /\ [][NextCrash]_vars

(***************************************************************************)
(* The rule engine as section 4.1 of the specification states it, for a    *)
(* stored rule r: anchor, next_due and the due condition.                   *)
(***************************************************************************)
RuleAnchor(r) ==
    IF Truthy(r.last_processed) THEN strptime(r.last_processed)
    ELSE LET start_dt == strptime(r.start_date)
         IN  IF start_dt.raised THEN ValueError ELSE Ok(PrevDay(start_dt.val))

RuleNextDue(r) ==
    IF RuleAnchor(r).raised THEN ValueError
    ELSE calculate_next_due_date(RuleAnchor(r).val, r.frequency)

\* the rule's evaluation raises nothing
RuleEvaluable(r) ==
    /\ ~strptime(r.start_date).raised
    /\ ~RuleNextDue(r).raised
    /\ r.end_date = None \/ ~strptime(r.end_date).raised

RuleDue(r, now) ==
    /\ r.active = 1
    /\ RuleEvaluable(r)
    /\ DateLE(RuleNextDue(r).val, now)
    /\ r.end_date = None \/ DateLE(now, strptime(r.end_date).val)

\* the transaction a due rule is to produce, without its id
RuleTransaction(r) ==
    [date |-> strftime(RuleNextDue(r).val), description |-> r.description \o " (Auto)",
     category |-> r.category, amount |-> r.amount, type |-> r.type, person |-> r.person]

Content(t) ==
    [date |-> t.date, description |-> t.description, category |-> t.category,
     amount |-> t.amount, type |-> t.type, person |-> t.person]

\* r with its last_processed moved to its next due date
Advanced(r) == [r EXCEPT !.last_processed = strftime(RuleNextDue(r).val)]

Inserted == db'.transactions \ db.transactions

ActiveRules == {r \in db.recurring_transactions : r.active = 1}

DueRules == {r \in db.recurring_transactions : RuleDue(r, today)}

\* the step is a call of process_recurring_transactions
ProcessStep == ret'.op = OpProcess

(***************************************************************************)
(* C1: one ProcessDue call inserts, for every active rule whose next_due   *)
(* <= now and whose end_date is unset or >= now, exactly one transaction   *)
(* dated next_due with the rule's template and the " (Auto)" description   *)
(* and sets last_processed to next_due; every other rule is unchanged and  *)
(* gets nothing.                                                           *)
(***************************************************************************)
C1_Step ==
    ProcessStep =>
        LET new == OrderById(Inserted)
            due == OrderById(DueRules)
        IN  /\ Len(new) = Len(due)
            /\ \A i \in 1..Len(due) : Content(new[i]) = RuleTransaction(due[i])
            /\ db'.recurring_transactions =
                  {IF r \in DueRules THEN Advanced(r) ELSE r : r \in db.recurring_transactions}

\* C1: every call of the engine inserts exactly the transactions of the due
\* rules, advances exactly those rules and leaves the others unchanged.
C1_ProcessDueMaterializesEachDueRule == [][C1_Step]_vars

(***************************************************************************)
(* C2: one ProcessDue call inserts at most one transaction per rule and    *)
(* moves a rule's last_processed by at most one period; the count it       *)
(* returns is the number of transactions it inserted, at most the number   *)
(* of active rules.                                                        *)
(***************************************************************************)
C2_Step ==
    ProcessStep =>
        LET changed == db.recurring_transactions \ db'.recurring_transactions
        IN  /\ Cardinality(Inserted) = Cardinality(changed)
            /\ Cardinality(Inserted) <= Cardinality(ActiveRules)
            /\ \A r \in changed :
                  /\ r \in ActiveRules
                  /\ Advanced(r) \in db'.recurring_transactions
                  /\ Cardinality({t \in Inserted : Content(t) = RuleTransaction(r)})
                       = Cardinality({o \in changed : RuleTransaction(o) = RuleTransaction(r)})
            /\ Cardinality(db'.recurring_transactions) = Cardinality(db.recurring_transactions)
            /\ ~ret'.raised => ret'.value = Cardinality(Inserted)

\* C2: every call of the engine inserts one transaction per advanced rule,
\* advances a rule by one period at most and returns the number inserted.
C2_AtMostOnePeriodPerCall == [][C2_Step]_vars

\* a call that advanced two rules at once, one of them behind by several periods
C2_Witness ==
    /\ ret.op = OpProcess /\ ~ret.raised /\ ret.value = 2
    /\ \E r \in DueRules : r.id \in ret.advanced

(***************************************************************************)
(* C3 as stated: the second of two ProcessDue calls in immediate           *)
(* succession, with the same now, returns 0.                               *)
(***************************************************************************)
C3_SecondCallReturnsZero ==
    (ret.op = OpProcess /\ ret.calls = 2 /\ ~ret.raised) => ret.value = 0

(***************************************************************************)
(* C3 amended: the second of two ProcessDue calls in immediate succession  *)
(* advances only rules that the first call advanced and that are still due *)
(* (more than one period behind), one transaction each; a rule that is not *)
(* due after the first call is unchanged, and a second call that returns   *)
(* returns the number of rules still due, 0 when there is none.            *)
(***************************************************************************)
C3_Step ==
    (ret.op = OpProcess /\ ProcessStep) =>
        /\ ret'.advanced \subseteq ret.advanced
        /\ \A r \in db.recurring_transactions :
              IF r.id \in ret'.advanced
              THEN r \in DueRules /\ Advanced(r) \in db'.recurring_transactions
              ELSE r \in db'.recurring_transactions
        /\ Cardinality(Inserted) = Cardinality(ret'.advanced)
        /\ ~ret'.raised => ret'.value = Cardinality(DueRules)

\* C3 amended: every second call in a row advances only still-due rules that
\* the first call advanced, and returns their number if it returns.
C3_SecondCallOnlyBacklog == [][C3_Step]_vars

\* the spec's scenario: the weekly rule fired for 2024-01-07, the second call gave 0
C3_Witness ==
    /\ ret.op = OpProcess /\ ret.calls = 2 /\ ~ret.raised /\ ret.value = 0
    /\ \E r \in db.recurring_transactions :
          r.frequency = "weekly" /\ r.last_processed = <<2024, 1, 7>>

(***************************************************************************)
(* C4: for a monthly rule Advance gives the same day in the following      *)
(* month (December to January of the next year), clamped to that month's   *)
(* last day, and never fails: so it does for the anchor of every monthly   *)
(* rule the engine has evaluated.                                          *)
(***************************************************************************)
ClampedMonth(d, y, m) ==
    Date(y, m, IF d.day <= DaysInMonth(y, m) THEN d.day ELSE DaysInMonth(y, m))

AdvanceMonthly(d) ==
    IF d.month = 12 THEN ClampedMonth(d, d.year + 1, 1)
    ELSE ClampedMonth(d, d.year, d.month + 1)

C4_MonthlyAdvanceClamps ==
    \A r \in db.recurring_transactions :
        (ret.op = OpProcess /\ r.frequency = "monthly" /\ ~RuleAnchor(r).raised) =>
            calculate_next_due_date(RuleAnchor(r).val, "monthly")
                = Ok(AdvanceMonthly(RuleAnchor(r).val))

(***************************************************************************)
(* C5: for a yearly rule Advance gives the same month and day one year     *)
(* later, and Feb 28 for a Feb 29 whose following year is no leap year: so *)
(* it does for the anchor of every yearly rule the engine has evaluated.    *)
(***************************************************************************)
AdvanceYearly(d) == ClampedMonth(d, d.year + 1, d.month)

C5_YearlyAdvanceClamps ==
    \A r \in db.recurring_transactions :
        (ret.op = OpProcess /\ r.frequency = "yearly" /\ ~RuleAnchor(r).raised) =>
            calculate_next_due_date(RuleAnchor(r).val, "yearly")
                = Ok(AdvanceYearly(RuleAnchor(r).val))

(***************************************************************************)
(* C6: within one ProcessDue call a fault in one rule's evaluation does    *)
(* not keep the other rules from being evaluated: every other rule that is *)
(* due is advanced by that call, wherever it stands in the rule order.     *)
(***************************************************************************)
C6_Step ==
    (ProcessStep /\ \E f \in ActiveRules : ~RuleEvaluable(f)) =>
        \A r \in DueRules : Advanced(r) \in db'.recurring_transactions

\* C6: every call of the engine that meets a faulty rule still advances every
\* due rule.
C6_FaultDoesNotStopOtherRules == [][C6_Step]_vars

(***************************************************************************)
(* C7: last_processed of a rule, once set, never decreases and is never    *)
(* unset again; every materialization sets it to a strictly later date.    *)
(***************************************************************************)
StrictlyLater(r, n) ==
    /\ n.last_processed # None
    /\ r.last_processed # None =>
          DateLT(strptime(r.last_processed).val, strptime(n.last_processed).val)

C7_Step ==
    /\ \A r \in db.recurring_transactions :
          \E n \in db'.recurring_transactions :
              /\ n.id = r.id
              /\ n.last_processed # r.last_processed => StrictlyLater(r, n)
    /\ ProcessStep =>
          Cardinality(Inserted) =
              Cardinality({r \in db.recurring_transactions :
                              \E n \in db'.recurring_transactions :
                                  n.id = r.id /\ n.last_processed # r.last_processed})

\* C7: in every step a rule keeps its id and its last_processed is unchanged
\* or strictly later; every inserted transaction comes with such an advance.
C7_LastProcessedMonotonic == [][C7_Step]_vars

\* a rule that has fired twice: its marker stands after an earlier transaction of its own
C7_Witness ==
    /\ ret.op = OpProcess /\ ret.calls = 2
    /\ Cardinality(db.recurring_transactions) = 1
    /\ \E r \in db.recurring_transactions :
          /\ r.id \in ret.advanced
          /\ \E t \in db.transactions :
                DateLT(strptime(t.date).val, strptime(r.last_processed).val)

(***************************************************************************)
(* The import as section 4.3 of the specification states it                *)
(***************************************************************************)
\* the step is a merge-mode import_data of the file
MergeStep == ret'.op = OpImport /\ ret'.arg = <<TRUE>>

\* an incoming transaction record, by field
RowTransaction(row) ==
    [date |-> At(row, 1), description |-> At(row, 2), category |-> At(row, 3),
     amount |-> At(row, 4), type |-> At(row, 5), person |-> At(row, 6)]

\* an incoming rule record, by field, null being unset
RowRule(row) ==
    [description |-> At(row, 1), category |-> At(row, 2), amount |-> At(row, 3),
     type |-> At(row, 4), person |-> At(row, 5), frequency |-> At(row, 6),
     start_date |-> At(row, 7),
     end_date |-> IF At(row, 8) = Null THEN None ELSE At(row, 8),
     last_processed |-> IF At(row, 9) = Null THEN None ELSE At(row, 9)]

RuleContent(r) ==
    [description |-> r.description, category |-> r.category, amount |-> r.amount,
     type |-> r.type, person |-> r.person, frequency |-> r.frequency,
     start_date |-> r.start_date, end_date |-> r.end_date,
     last_processed |-> r.last_processed]

SameKey(byCategory, a, b) ==
    /\ a.date = b.date
    /\ a.description = b.description
    /\ IF byCategory THEN a.category = b.category ELSE a.amount = b.amount

RECURSIVE MergedTransactions(_, _, _, _)
\* The records a merge inserts, in order: an incoming record is skipped when
\* the store, or an earlier record of the batch, has its key.
MergedTransactions(byCategory, have, rows, i) ==
    IF i > Len(rows) THEN <<>>
    ELSE LET incoming == RowTransaction(rows[i])
         IN  IF \E t \in have : SameKey(byCategory, t, incoming)
             THEN MergedTransactions(byCategory, have, rows, i + 1)
             ELSE <<incoming>> \o
                  MergedTransactions(byCategory, have \cup {incoming}, rows, i + 1)

InsertedContents ==
    LET new == OrderById(Inserted) IN [i \in 1..Len(new) |-> Content(new[i])]

StoredContents == {Content(t) : t \in db.transactions}

C9_Step ==
    (ret.op = "export_data" /\ ret'.op = OpImport /\ ret'.arg = <<FALSE>>) =>
        /\ Cardinality(db'.transactions) = Cardinality(db.transactions)
        /\ {Content(t) : t \in db'.transactions} = {Content(t) : t \in db.transactions}
        /\ Cardinality(db'.recurring_transactions) = Cardinality(db.recurring_transactions)
        /\ {RuleContent(r) : r \in db'.recurring_transactions}
              = {RuleContent(r) : r \in db.recurring_transactions}

\* C9: every replace-mode import that follows the export at once leaves the
\* transactions and the rules as they were, field by field.
C9_ExportImportRoundTrip == [][C9_Step]_vars

(***************************************************************************)
(* C10: a merge-mode import skips an incoming rule exactly when a stored   *)
(* rule has the same description, type and frequency; a rule it inserts    *)
(* carries the end_date and the last_processed of the snapshot.            *)
(***************************************************************************)
SameRuleKey(a, b) ==
    a.description = b.description /\ a.type = b.type /\ a.frequency = b.frequency

RECURSIVE MergedRules(_, _, _)
MergedRules(have, rows, i) ==
    IF i > Len(rows) THEN <<>>
    ELSE LET incoming == RowRule(rows[i])
         IN  IF \E r \in have : SameRuleKey(r, incoming)
             THEN MergedRules(have, rows, i + 1)
             ELSE <<incoming>> \o MergedRules(have \cup {incoming}, rows, i + 1)

C10_Step ==
    MergeStep =>
        LET new == OrderById(db'.recurring_transactions \ db.recurring_transactions)
        IN  /\ db.recurring_transactions \subseteq db'.recurring_transactions
            /\ [i \in 1..Len(new) |-> RuleContent(new[i])]
                  = MergedRules({RuleContent(r) : r \in db.recurring_transactions},
                                file[1].recurring_transactions, 1)

\* C10: every merge-mode import inserts exactly the incoming rules whose key
\* is new, each with the end_date and last_processed of the snapshot.
C10_MergedRuleKeepsLastProcessed == [][C10_Step]_vars

(***************************************************************************)
(* C11: a replace-mode import that succeeds deletes every transaction and  *)
(* every rule the store held and inserts every record of the snapshot,     *)
(* records with one dedup key included: afterwards the store has as many   *)
(* transactions and as many rules as the snapshot has records.             *)
(***************************************************************************)
\* the step is a replace-mode import_data of the file
ReplaceStep == ret'.op = OpImport /\ ret'.arg = <<FALSE>>

C11_Step ==
    (ReplaceStep /\ ret'.value = TRUE) =>
        /\ db'.transactions \cap db.transactions = {}
        /\ db'.recurring_transactions \cap db.recurring_transactions = {}
        /\ \A t \in db'.transactions : t.id > db.seq_transactions
        /\ \A r \in db'.recurring_transactions : r.id > db.seq_recurring
        /\ Cardinality(db'.transactions) = Len(file[1].transactions)
        /\ Cardinality(db'.recurring_transactions) = Len(file[1].recurring_transactions)

\* C11: every successful replace-mode import leaves exactly the snapshot's
\* number of transactions and of rules, none of them a record held before.
C11_ReplaceLeavesSnapshotCounts == [][C11_Step]_vars

\* a replace that deleted a rule and a transaction the store held (their ids
\* are used up) and left the snapshot's one rule and one transaction
C11_Witness ==
    /\ ret.op = OpImport /\ ret.arg = <<FALSE>> /\ ret.value = TRUE
    /\ Cardinality(db.transactions) = 1 /\ db.seq_transactions = 2
    /\ Cardinality(db.recurring_transactions) = 1 /\ db.seq_recurring = 2
    /\ Len(file[1].transactions) = 1 /\ Len(file[1].recurring_transactions) = 1

(***************************************************************************)
(* C12: every stored transaction and every stored rule has amount >= 0 in  *)
(* every reachable state, whatever the user enters and whatever the engine *)
(* materializes.                                                           *)
(***************************************************************************)
C12_AmountsNonNegative ==
    /\ \A t \in db.transactions : t.amount >= 0
    /\ \A r \in db.recurring_transactions : r.amount >= 0

(***************************************************************************)
(* C13: a form submitted with a missing required field, a non-numeric      *)
(* amount or a date that is no calendar date is rejected before any store  *)
(* mutation: the store is unchanged.                                       *)
(***************************************************************************)
Blank(text) == text \in {"", " "}

MalformedDate(text) == text # <<>> /\ strptime(text).raised

InvalidTransactionForm(form) ==
    \/ form.date = <<>> \/ form.amount = <<>>
    \/ Blank(form.description) \/ Blank(form.category) \/ Blank(form.type) \/ Blank(form.person)
    \/ float(form.amount).raised
    \/ MalformedDate(form.date)

InvalidRecurringForm(form) ==
    \/ form.start_date = <<>> \/ form.amount = <<>>
    \/ Blank(form.description) \/ Blank(form.category) \/ Blank(form.type) \/ Blank(form.person)
    \/ Blank(form.frequency)
    \/ float(form.amount).raised
    \/ MalformedDate(form.start_date)

C13_Step ==
    /\ (ret'.op = OpAddTransaction /\ InvalidTransactionForm(ret'.arg[1])) => db' = db
    /\ (ret'.op = OpAddRecurring /\ InvalidRecurringForm(ret'.arg[1])) => db' = db

\* C13: every submission of an invalid form leaves the store unchanged.
C13_InvalidInputRejected == [][C13_Step]_vars

(***************************************************************************)
(* C14: between the start of the program and the first user action the     *)
(* engine is invoked one time, so that a rule gains at most one            *)
(* materialized transaction during startup.                                *)
(***************************************************************************)
C14_Step ==
    ret'.op = OpMain =>
        /\ ret'.calls = 1
        /\ Cardinality(Inserted) <= Cardinality(ActiveRules)
        /\ \A r \in db.recurring_transactions :
              \/ r \in db'.recurring_transactions
              \/ RuleEvaluable(r) /\ Advanced(r) \in db'.recurring_transactions

\* C14: every start of the program invokes the engine once and advances a
\* rule by one period at most.
C14_StartupRunsEngineOnce == [][C14_Step]_vars

(***************************************************************************)
(* C15: get_transactions(filters) returns exactly the stored transactions  *)
(* that satisfy every predicate present in filters (date >= start_date,    *)
(* date <= end_date, category, person, type; an absent or empty predicate  *)
(* is not applied), each once, ordered by date descending and, within a    *)
(* date, by id descending; the store is unchanged.                         *)
(***************************************************************************)
OnOrAfter(text, bound) == DateLE(strptime(bound).val, strptime(text).val)

Selected(t, filters) ==
    /\ filters.start_date = None \/ OnOrAfter(t.date, filters.start_date)
    /\ filters.end_date = None \/ OnOrAfter(filters.end_date, t.date)
    /\ filters.category \in {"", t.category}
    /\ filters.person \in {"", t.person}
    /\ filters.type \in {"", t.type}

C15_Step ==
    ret'.op = OpQuery =>
        LET rows    == ret'.value
            filters == ret'.arg[1]
        IN  /\ db' = db
            /\ {rows[i] : i \in 1..Len(rows)}
                  = {TransRow(t) : t \in {s \in db.transactions : Selected(s, filters)}}
            /\ \A i, j \in 1..Len(rows) :
                  i < j =>
                      \/ At(rows[i], 1) # At(rows[j], 1) /\ OnOrAfter(At(rows[i], 1), At(rows[j], 1))
                      \/ At(rows[i], 1) = At(rows[j], 1) /\ At(rows[i], 0) > At(rows[j], 0)

\* vars, with the operation and its argument compared first: the values two
\* different operations return are of different kinds
QueryVars == <<ret.op, ret.arg, db, today, file, ret>>

\* C15: every call of get_transactions returns the selected transactions,
\* latest date first and latest id first within a date, and changes nothing.
C15_QueryFiltersAndOrders == [][C15_Step]_QueryVars

\* a query with all five predicates that selected one of three transactions,
\* two of them on one date
C15_Witness ==
    /\ ret.op = OpQuery /\ Len(ret.value) = 1 /\ Cardinality(db.transactions) = 3
    /\ ret.arg[1].start_date # None /\ ret.arg[1].end_date # None
    /\ "" \notin {ret.arg[1].category, ret.arg[1].person, ret.arg[1].type}
    /\ \E t, u \in db.transactions : t.id # u.id /\ t.date = u.date

(***************************************************************************)
(* C16: the chart of a query result has one (date, balance) point per      *)
(* transaction, in ascending date order with the transactions of one date  *)
(* in their order in the query result; the balance of the k-th point is    *)
(* the sum of the signed values (+amount for Income, -amount for Expense)  *)
(* of the first k transactions in that order; no transaction gives no      *)
(* point, and the last balance is TotalIncome - TotalExpenses.             *)
(***************************************************************************)
\* row j of the query result comes before row i in the chart: an earlier
\* date, or the same date and an earlier place in the result
ChartedBefore(rows, j, i) ==
    \/ At(rows[j], 1) # At(rows[i], 1) /\ OnOrAfter(At(rows[i], 1), At(rows[j], 1))
    \/ At(rows[j], 1) = At(rows[i], 1) /\ j < i

\* the rows of the query result that are charted up to row i, itself included
ChartedUpTo(rows, i) == {i} \cup {j \in 1..Len(rows) : ChartedBefore(rows, j, i)}

SignedValue(row) ==
    CASE At(row, 5) = "Income" -> At(row, 4)
      [] At(row, 5) = "Expense" -> 0 - At(row, 4)

RECURSIVE SumOver(_, _)
\* the sum of value[i] over the positions i of a set
SumOver(value, positions) ==
    IF positions = {} THEN 0
    ELSE LET i == CHOOSE i \in positions : TRUE
         IN  value[i] + SumOver(value, positions \ {i})

\* C16: every chart drawn plots the running balance of the query result in
\* ascending date order, ending at total income minus total expenses.
C16_RunningBalance ==
    ret.op = OpApplyFilters =>
        LET rows     == get_transactions(db, ret.arg[1])
            points   == ret.value.points
            summary  == ret.value.summary
            signed   == [i \in 1..Len(rows) |-> SignedValue(rows[i])]
            amounts  == [i \in 1..Len(rows) |-> At(rows[i], 4)]
            incomes  == {i \in 1..Len(rows) : At(rows[i], 5) = "Income"}
            expenses == {i \in 1..Len(rows) : At(rows[i], 5) = "Expense"}
        IN  /\ ~ret.raised
            /\ Len(points) = Len(rows)
            /\ \A i \in 1..Len(rows) :
                  points[Cardinality(ChartedUpTo(rows, i))]
                      = <<strptime(At(rows[i], 1)).val, SumOver(signed, ChartedUpTo(rows, i))>>
            /\ summary.total_income = SumOver(amounts, incomes)
            /\ summary.total_expenses = SumOver(amounts, expenses)
            /\ rows # <<>> =>
                  points[Len(rows)][2] = summary.total_income - summary.total_expenses

\* the example of the specification, and a chart of two transactions of one date
C16_Witness ==
    /\ ret.op = OpApplyFilters
    /\ \/ /\ {Content(t) : t \in db.transactions} = {Salary, Lunch}
          /\ Cardinality(db.transactions) = 2
          /\ ret.arg[1] = NoFilters
          /\ ret.value.points = << <<Date(2024, 1, 1), 100>>, <<Date(2024, 1, 2), 60>> >>
       \/ /\ Len(ret.value.points) = 3
          /\ ret.value.points[2][1] = ret.value.points[3][1]
          /\ ret.value.points[2][2] > ret.value.points[3][2]

(***************************************************************************)
(* C17: every transaction the engine materializes from a rule is dated on  *)
(* or after the rule's start_date and, for a rule with an end_date, not    *)
(* later than the end_date; so is every last_processed.                    *)
(***************************************************************************)
WithinRule(r, date) ==
    /\ TextLE(r.start_date, date)
    /\ r.end_date # None => TextLE(date, r.end_date)

C17_Step ==
    /\ ProcessStep =>
          \A t \in Inserted :
              \E r \in db.recurring_transactions :
                  /\ t.description = r.description \o " (Auto)"
                  /\ r.last_processed # t.date
                  /\ [r EXCEPT !.last_processed = t.date] \in db'.recurring_transactions
                  /\ WithinRule(r, t.date)
    /\ \A r \in db'.recurring_transactions :
          r.last_processed # None => WithinRule(r, r.last_processed)

\* C17: every call of the engine dates what it inserts within the rule's
\* start_date and end_date, and no last_processed ever lies outside them.
C17_MaterializedWithinStartAndEnd == [][C17_Step]_vars

\* a rule that fired before its end_date and, its next due date passed and
\* its end_date over, got nothing from the call just made
C17_Witness ==
    /\ ret.op = OpProcess /\ ~ret.raised
    /\ \E r \in db.recurring_transactions :
          /\ r.end_date # None /\ r.last_processed # None
          /\ r.id \notin ret.advanced
          /\ DateLT(strptime(r.end_date).val, today)
          /\ RuleEvaluable(r) /\ DateLE(RuleNextDue(r).val, today)

(***************************************************************************)
(* C18 as stated: an import of a file that cannot be opened or is no       *)
(* parseable snapshot document returns false and leaves the store          *)
(* unchanged, in merge and in replace mode.                                *)
(***************************************************************************)
\* the file is there and its text is JSON
IsJson(f) == f # <<>> /\ f[1] # NotJson

\* the JSON text is an object whose rows have all their fields
IsSnapshot(document) ==
    /\ document # JsonArray
    /\ \A i \in 1..Len(document.transactions) : Len(document.transactions[i]) >= 7
    /\ \A i \in 1..Len(document.recurring_transactions) :
          Len(document.recurring_transactions[i]) >= 9

ImportStep == ret'.op = OpImport

C18_Step ==
    ImportStep =>
        /\ ~ret'.raised /\ ret'.value \in BOOLEAN
        /\ ~IsJson(file) => ret'.value = FALSE /\ db' = db
        /\ (IsJson(file) /\ ~IsSnapshot(file[1])) =>
              /\ ret'.value = FALSE
              /\ IF ret'.arg = <<TRUE>>
                 THEN /\ db.transactions \subseteq db'.transactions
                      /\ db.recurring_transactions \subseteq db'.recurring_transactions
                 ELSE /\ db'.transactions \cap db.transactions = {}
                      /\ db'.recurring_transactions = {}
              /\ file[1] = TruncatedSnapshot =>
                    \E t \in db'.transactions :
                        t.description = "Gym" /\ (t.id > db.seq_transactions
                                                    \/ ret'.arg = <<TRUE>>)
        /\ (IsJson(file) /\ IsSnapshot(file[1])) => ret'.value = TRUE

RuleSettled(r) ==
    /\ RuleEvaluable(r)
    /\ \/ DateLT(today, RuleNextDue(r).val)
       \/ r.end_date # None /\ DateLT(strptime(r.end_date).val, today)

Settled ==
    /\ ret.op = OpProcess /\ ~ret.raised /\ ret.value = 0
    /\ \A r \in ActiveRules : RuleSettled(r)

\* C19: eventually the engine has returned 0 and every rule stays settled.
C19_RepeatedProcessDueSettles == <>[]Settled

(***************************************************************************)
(* C20: the INSERT and the UPDATE of one materialization are two commits.  *)
(* A process that dies between them leaves the rule's last_processed       *)
(* behind the ledger, and the next call inserts a second transaction for   *)
(* the same rule and due date; without such a death (and without imports)  *)
(* no rule has two generated transactions of the same date.                *)
(***************************************************************************)
\* the transactions generated from rule r
Auto(d, r) == {t \in d.transactions : t.description = r.description \o " (Auto)"}

RuleOf(d, id) == CHOOSE r \in d.recurring_transactions : r.id = id

\* last_processed is behind a transaction generated from the rule
Stale(d, r) ==
    \E t \in Auto(d, r) : r.last_processed = None \/ ~TextLE(t.date, r.last_processed)

Duplicated(d, r) == \E t, u \in Auto(d, r) : t.id # u.id /\ t.date = u.date

Sound(d) == \A r \in d.recurring_transactions : ~Stale(d, r) /\ ~Duplicated(d, r)

\* the death between the writes: the transaction is there, the rule is as it was
LeftStale ==
    LET id == ret'.arg[1]
        date == ret'.arg[2]
    IN  /\ RuleOf(db', id) = RuleOf(db, id)
        /\ \E t \in Auto(db', RuleOf(db', id)) \ db.transactions : t.date = date
        /\ Stale(db', RuleOf(db', id))

\* the call inserts a transaction for the rule and the due date left behind
InsertsAgain ==
    \E t \in Auto(db', RuleOf(db, ret.arg[1])) \ db.transactions : t.date = ret.arg[2]

C20_Step ==
    /\ ret'.op = OpKilled => LeftStale
    /\ (ret.op = OpKilled /\ ret'.op = OpProcess) => InsertsAgain
    /\ (Sound(db) /\ ret'.op # OpKilled) => Sound(db')

\* C20: a death between the two writes leaves the rule stale, the next call
\* inserts the same rule's transaction for the same date a second time, and
\* without a death no rule gets two generated transactions of one date.
C20_FailureBetweenWritesDuplicates == [][C20_Step]_vars

(***************************************************************************)
(* C21: a merge-mode import deletes and modifies no stored record, and the *)
(* same snapshot imported in merge mode a second time, with nothing in     *)
(* between, inserts no transaction and no rule, also when the snapshot     *)
(* holds several records of one dedup key: they collapse to one on the     *)
(* first import.                                                           *)
(***************************************************************************)
MergeImport(r) == r.op = OpImport /\ r.arg = <<TRUE>>

\* the dedup keys import_data compares
TransactionKey(t) == <<t.date, t.description, t.amount>>

RuleKey(r) == <<r.description, r.type, r.frequency>>

\* the inserted records: one for a key, and for no key that was stored
Collapsed(stored, inserted, Key(_)) ==
    /\ \A t, u \in inserted : Key(t) = Key(u) => t = u
    /\ \A t \in inserted, u \in stored : Key(t) # Key(u)

\* vars, with the operation and its argument compared first: the values two
\* different operations return are of different kinds
MergeVars == <<ret.op, ret.arg, db, today, file, ret>>

C21_Step ==
    MergeImport(ret') =>
        /\ db.transactions \subseteq db'.transactions
        /\ db.recurring_transactions \subseteq db'.recurring_transactions
        /\ Collapsed(db.transactions, db'.transactions \ db.transactions, TransactionKey)
        /\ Collapsed(db.recurring_transactions,
                     db'.recurring_transactions \ db.recurring_transactions, RuleKey)
        /\ MergeImport(ret) => db' = db

\* C21: a merge import keeps every stored record as it is, inserts one
\* record for a key that was not stored, and done again at once inserts
\* nothing.
C21_MergeIdempotentNonDestructive == [][C21_Step]_MergeVars

\* the snapshot's two transactions of one key and two rules of one key are
\* in the store once each, after the merge import was done twice
C21_Witness ==
    /\ MergeImport(ret) /\ ret.calls = 2 /\ ret.value = TRUE
    /\ file # <<>> /\ is_object(file[1])
    /\ Len(file[1].transactions) = 2 /\ Len(file[1].recurring_transactions) = 2
    /\ Cardinality(db.transactions) = 1 /\ Cardinality(db.recurring_transactions) = 1

====
